---- MODULE Spec2Model ----
(***************************************************************************)
(* The ANLI inference service of backend/main.py as a state machine.       *)
(*                                                                         *)
(* State: the three process-wide globals model, tokenizer and device, the  *)
(* position of the startup hook load_model, the local directories it reads *)
(* and, for every thread of the server's thread pool, the handler it runs, *)
(* the handler's locals and the last response it sent.                     *)
(*                                                                         *)
(* Texts are sequences of words.  The tokenizer and the classifier are     *)
(* library code driven by files on disk: the tokenizer is a vocabulary     *)
(* lookup with the library's pair truncation, the classifier a             *)
(* deterministic score of the token ids given the weights (dropout         *)
(* perturbs it while the module is in training mode).  Probabilities are   *)
(* fixed-point numbers, ProbScale standing for 1.0.                        *)
(***************************************************************************)
EXTENDS Integers, Sequences, FiniteSets

VARIABLES env, loadpc, model, tokenizer, device, base_model, worker, resp

vars == <<env, loadpc, model, tokenizer, device, base_model, worker, resp>>

\* ------------------------------------------------------------------ bounds
\* Longest batch a client sends.
MaxBatch == 2
\* Number of words of the long text (longer than the tokenizer's limit).
LongLen == 260
\* Fixed-point value of the probability 1.0.
ProbScale == 10000

\* --------------------------------------------------------- program constants
\* max_length of both tokenizer calls.
MaxLength == 256
\* num_labels of the classifier.
NumLabels == 3

Classes == 0 .. (NumLabels - 1)

\* The threads the server runs sync endpoints on.
Workers == {"w1", "w2"}

\* Python's None.
None == [type |-> "NoneType"]

\* -------------------------------------------------------------- the inputs
Empty == << >>
TextA == <<"a", "b">>
TextB == <<"c">>
TextC == <<"b", "zzz">>
LongText == [k \in 1 .. LongLen |-> IF k % 2 = 1 THEN "a" ELSE "b"]

PredictionRequest(p, h) == [premise |-> p, hypothesis |-> h]

\* Bodies of POST /predict that pass validation (both fields are strings).
PredictRequests ==
    { PredictionRequest(Empty, Empty),
      PredictionRequest(TextA, TextB),
      PredictionRequest(TextB, TextC),
      PredictionRequest(LongText, TextB),
      PredictionRequest(LongText, LongText) }

\* Elements of "pairs": any Dict[str, str] passes validation, also one that
\* lacks a key.
GoodPairs ==
    { [premise |-> TextA, hypothesis |-> TextB],
      [premise |-> TextB, hypothesis |-> TextC] }

BadPairs == { [premise |-> TextA], [hypothesis |-> TextB] }

PairDicts == GoodPairs \cup BadPairs

SeqsUpTo(S, n) == UNION { [1 .. k -> S] : k \in 0 .. n }

\* Bodies of POST /batch_predict that pass validation: up to MaxBatch pairs,
\* at most one of them lacking a key (the loop never looks past the first).
BatchRequests ==
    { [pairs |-> ps] : ps \in
        { q \in SeqsUpTo(PairDicts, MaxBatch) :
            Cardinality({i \in DOMAIN q : q[i] \in BadPairs}) <= 1 } }

\* ------------------------------------------------- the files and the machine
Special == [pad |-> 0, cls |-> 1, sep |-> 2, unk |-> 3]

Vocab == [a |-> 4, b |-> 5, c |-> 6]

LastTokenId == Special.unk + Cardinality(DOMAIN Vocab)

TokenIds == 0 .. LastTokenId

Row(s) == [t \in TokenIds |-> s[t + 1]]

\* Weights of the classifier head, by class and token id: the base model ...
BaseWeights ==
    [c \in Classes |->
        CASE c = 0 -> Row(<<0, 1, 0, 1, 1, 0, 2>>)
          [] c = 1 -> Row(<<0, 0, 1, 0, 0, 1, 1>>)
          [] c = 2 -> Row(<<0, 1, 1, 2, 1, 1, 0>>)]

\* ... and what the adapter adds to it.
LoraDelta ==
    [c \in Classes |->
        CASE c = 0 -> Row(<<0, 0, 0, 0, 1, 0, 0>>)
          [] c = 1 -> Row(<<0, 1, 0, 0, 0, 0, 1>>)
          [] c = 2 -> Row(<<0, 0, 0, 0, 0, 1, 0>>)]

\* What the process finds when it starts: whether an accelerator is present
\* and what ./base_model and ./lora_adapter hold.
Environments ==
    { [cuda |-> c, vocab |-> Vocab, base |-> BaseWeights, lora |-> LoraDelta] :
        c \in BOOLEAN }

\* ------------------------------------------------------- Python exceptions
Ok(v) == [ok |-> TRUE, value |-> v]

Raise(msg) == [ok |-> FALSE, detail |-> msg]

\* str(e) of the errors the handlers can meet.
NoneCallError == "'NoneType' object is not callable"
DeviceMismatchError == "Expected all tensors to be on the same device"
EncodeFault == "tokenizer: out of memory"
ForwardFault == "forward: out of memory"

\* str(KeyError(k)) is the repr of the key.
KeyErrorMessage(k) == IF k = "premise" THEN "'premise'" ELSE "'hypothesis'"

\* ------------------------------------------------------ startup: load_model
\* torch.device("cuda" if torch.cuda.is_available() else "cpu")
TorchDevice(cuda) == [type |-> "device", name |-> IF cuda THEN "cuda" ELSE "cpu"]

\* AutoTokenizer.from_pretrained(base_model_dir)
TokenizerFromPretrained(e) == [type |-> "tokenizer", vocab |-> e.vocab]

\* AutoModelForSequenceClassification.from_pretrained(base_model_dir, num_labels=3):
\* on the CPU and in evaluation mode.
ModelFromPretrained(e) ==
    [type |-> "DebertaV2ForSequenceClassification", weights |-> e.base,
     device |-> "cpu", training |-> FALSE]

\* PeftModel.from_pretrained(base_model, lora_adapter_dir)
PeftFromPretrained(b, e) ==
    [type |-> "PeftModel", weights |-> b.weights, lora |-> e.lora,
     device |-> b.device, training |-> b.training]

\* The module a PeftModel wraps: the object base_model names, with the
\* adapter's layers put into it in place.
BaseOf(m) == [m EXCEPT !.type = "DebertaV2ForSequenceClassification"]

\* model.merge_and_unload(): the adapter is added into the base weights of the
\* wrapped module, which is returned.
MergeAndUnload(m) ==
    [type |-> "DebertaV2ForSequenceClassification",
     weights |-> [c \in Classes |-> [t \in TokenIds |-> m.weights[c][t] + m.lora[c][t]]],
     device |-> m.device, training |-> m.training]

\* model.to(device)
To(m, d) == [m EXCEPT !.device = d.name]

EvalTrain(m) == [m EXCEPT !.training = TRUE]

\* model.eval()
Eval(m) == [m EXCEPT !.training = FALSE]

LoadSteps == {"start", "tokenizer", "base", "peft", "merge", "place"}

OnLoadErrorSwallowed == "done"

\* except Exception: log and raise. The exception leaves the startup hook and
\* the server stops instead of starting.
OnLoadError == "failed"

StartupDoneEarly(pc) == pc # "failed"

\* The server accepts requests once the startup hook has returned.
StartupDone(pc) == pc = "done"

\* --------------------------------------------------------------- tokenizer
\* Vocabulary lookup of every word; an unknown word is [UNK].
Encode(tok, text) ==
    [k \in 1 .. Len(text) |->
        IF text[k] \in DOMAIN tok.vocab THEN tok.vocab[text[k]] ELSE Special.unk]

Min(a, b) == IF a < b THEN a ELSE b

Max(a, b) == IF a > b THEN a ELSE b

\* [CLS] premise [SEP] hypothesis [SEP]
AddedTokens == Len(<<Special.cls, Special.sep, Special.sep>>)

TruncateEncodingsOff(la, lb, limit) == <<la, lb>>

\* truncation=True (longest first) of a pair of la and lb tokens to limit
\* tokens: the lengths kept of the first and of the second sequence.
TruncateEncodings(la, lb, limit) ==
    IF la + lb <= limit THEN <<la, lb>>
    ELSE LET swap == la > lb
             s == Min(la, lb)
             n2 == IF s > limit THEN s ELSE Max(s, limit - s)
             both == s + n2 > limit
             k1 == IF both THEN limit \div 2 ELSE s
             k2 == IF both THEN (limit \div 2) + (limit % 2) ELSE n2
         IN  IF swap THEN <<k2, k1>> ELSE <<k1, k2>>

\* tokenizer(premise, hypothesis, return_tensors="pt", truncation=True,
\*           max_length=256, padding=True).to(device)
\* One sequence is its own longest, so padding adds nothing.  A BatchEncoding
\* moved to None stays where it is, on the CPU.
TokenizerCall(tok, dev, premise, hypothesis) ==
    IF tok = None THEN Raise(NoneCallError)
    ELSE LET a == Encode(tok, premise)
             b == Encode(tok, hypothesis)
             keep == TruncateEncodings(Len(a), Len(b), MaxLength - AddedTokens)
             ids == <<Special.cls>> \o SubSeq(a, 1, keep[1]) \o <<Special.sep>>
                    \o SubSeq(b, 1, keep[2]) \o <<Special.sep>>
         IN  Ok([input_ids |-> ids,
                 device |-> IF dev = None THEN "cpu" ELSE dev.name])

\* -------------------------------------------------------------- classifier
Count(ids, t) == Cardinality({k \in 1 .. Len(ids) : ids[k] = t})

RECURSIVE Score(_, _, _)
Score(row, ids, t) ==
    IF t < 0 THEN 0 ELSE row[t] * Count(ids, t) + Score(row, ids, t - 1)

\* exp(0), exp(1), exp(2), exp(3) in thousandths.
ExpMilli == <<1000, 2718, 7389, 20086>>

LogitRange == Len(ExpMilli)

\* The adapter acts on the forward pass whether merged or not.
EffectiveWeights(m) ==
    IF m.type = "PeftModel" THEN MergeAndUnload(m).weights ELSE m.weights

\* Dropout draws a mask only in training mode.
DropoutMasks(m) == IF m # None /\ m.training THEN {0, 1} ELSE {0}

\* model(**inputs).logits: the three raw scores of the sequence.
ModelCall(m, inputs, mask) ==
    IF m = None THEN Raise(NoneCallError)
    ELSE IF m.device # inputs.device THEN Raise(DeviceMismatchError)
    ELSE Ok([c \in Classes |->
                (Score(EffectiveWeights(m)[c], inputs.input_ids, LastTokenId)
                 + (IF c = 0 THEN mask ELSE 0)) % LogitRange])

RECURSIVE SumOver(_, _)
SumOver(f, c) == IF c < 0 THEN 0 ELSE f[c] + SumOver(f, c - 1)

\* torch.softmax(logits, dim=-1)[0]
Softmax(logits) ==
    LET e == [c \in Classes |-> ExpMilli[logits[c] + 1]]
        total == SumOver(e, NumLabels - 1)
    IN  [c \in Classes |-> (e[c] * ProbScale) \div total]

ArgMaxLast(probs) ==
    CHOOSE c \in Classes :
        /\ \A d \in Classes : probs[d] <= probs[c]
        /\ \A d \in Classes : probs[d] = probs[c] => d <= c

\* torch.argmax(probs).item(): the index of the first maximal value.
ArgMax(probs) ==
    CHOOSE c \in Classes :
        /\ \A d \in Classes : probs[d] <= probs[c]
        /\ \A d \in Classes : probs[d] = probs[c] => c <= d

\* float(x) of a float32 scalar: the same number, widened.
Float(x) == x

\* ---------------------------------------------------------------- responses
\* labels = ["Entailment", "Neutral", "Contradiction"] in predict
LabelsReordered == [c \in Classes |-> <<"Contradiction", "Neutral", "Entailment">>[c + 1]]

Labels == [c \in Classes |-> <<"Entailment", "Neutral", "Contradiction">>[c + 1]]

\* the same list in batch_predict
BatchLabels == [c \in Classes |-> <<"Entailment", "Neutral", "Contradiction">>[c + 1]]

ProbabilitiesMap(probs) ==
    [entailment |-> Float(probs[0]), neutral |-> Float(probs[1]),
     contradiction |-> Float(probs[2])]

ConfidenceOfFirst(probs, pred_idx) == Float(probs[0])

\* confidence=float(probs[pred_idx])
Confidence(probs, pred_idx) == Float(probs[pred_idx])

\* PredictionResponse(prediction=..., confidence=..., probabilities={...})
PredictionResponse(probs, pred_idx) ==
    [status |-> 200,
     body |-> [prediction |-> Labels[pred_idx],
               confidence |-> Confidence(probs, pred_idx),
               probabilities |-> ProbabilitiesMap(probs)]]

\* the dict appended for one pair of a batch
BatchResult(pair, probs, pred_idx) ==
    [premise |-> pair["premise"],
     hypothesis |-> pair["hypothesis"],
     prediction |-> BatchLabels[pred_idx],
     confidence |-> Float(probs[pred_idx]),
     probabilities |-> ProbabilitiesMap(probs)]

AppendResultInFront(results, r) == <<r>> \o results

\* results.append({...})
AppendResult(results, r) == Append(results, r)

\* return {"results": results}
BatchResponse(results) == [status |-> 200, body |-> [results |-> results]]

PredictErrorSwallowed(detail) == [status |-> 200, detail |-> detail]

\* except Exception as e: raise HTTPException(status_code=500, detail=str(e))
PredictError(detail) == [status |-> 500, detail |-> detail]

BatchErrorPartial(results, detail) ==
    [status |-> 500, detail |-> detail, body |-> [results |-> results]]

\* the same in batch_predict: the results gathered so far are dropped.
BatchError(results, detail) == [status |-> 500, detail |-> detail]

\* GET /health
HealthResponse(m, d) ==
    [status |-> 200,
     body |-> [status |-> "healthy", model_loaded |-> (m # None),
               device |-> IF d = None THEN "None" ELSE d.name]]

\* GET /
RootResponse ==
    [status |-> 200,
     body |-> [message |-> "ANLI NLI Inference API",
               version |-> "1.0.0",
               model |-> "DeBERTa-v3-base fine-tuned on ANLI R2",
               accuracy |-> "50.3%",
               endpoints |-> [predict |-> "/predict",
                              batch_predict |-> "/batch_predict",
                              health |-> "/health"]]]

\* --------------------------------------------------------------- the state
Idle == [op |-> "idle"]

NoResponse == [op |-> "none"]

Served(op, request, response) ==
    [op |-> op, request |-> request, response |-> response]

Init ==
    /\ env \in Environments
    /\ loadpc = "start"
    /\ model = None
    /\ tokenizer = None
    /\ device = None
    /\ base_model = None
    /\ worker = [w \in Workers |-> Idle]
    /\ resp = [w \in Workers |-> NoResponse]

\* ------------------------------------------------------ load_model, by line
LoadDevice ==
    /\ loadpc = "start"
    /\ device' = TorchDevice(env.cuda)
    /\ loadpc' = "tokenizer"
    /\ UNCHANGED <<env, model, tokenizer, base_model, worker, resp>>

LoadTokenizer ==
    /\ loadpc = "tokenizer"
    /\ tokenizer' = TokenizerFromPretrained(env)
    /\ loadpc' = "base"
    /\ UNCHANGED <<env, model, device, base_model, worker, resp>>

LoadBase ==
    /\ loadpc = "base"
    /\ base_model' = ModelFromPretrained(env)
    /\ loadpc' = "peft"
    /\ UNCHANGED <<env, model, tokenizer, device, worker, resp>>

\* model wraps the object base_model names and changes it in place.
LoadAdapter ==
    /\ loadpc = "peft"
    /\ model' = PeftFromPretrained(base_model, env)
    /\ base_model' = BaseOf(model')
    /\ loadpc' = "merge"
    /\ UNCHANGED <<env, tokenizer, device, worker, resp>>

\* The merged module is the object base_model names: model and base_model
\* are now the same object.
LoadMerge ==
    /\ loadpc = "merge"
    /\ model' = MergeAndUnload(model)
    /\ base_model' = model'
    /\ loadpc' = "place"
    /\ UNCHANGED <<env, tokenizer, device, worker, resp>>

\* model.to(device), model.eval(); the hook returns and its local base_model
\* is gone.
LoadPlace ==
    /\ loadpc = "place"
    /\ model' = Eval(To(model, device))
    /\ loadpc' = "done"
    /\ base_model' = None
    /\ UNCHANGED <<env, tokenizer, device, worker, resp>>

\* Any of the steps raises (a missing file, a bad adapter, no memory on the
\* device): the globals it had not yet assigned stay as they were.
LoadFail ==
    /\ loadpc \in LoadSteps
    /\ loadpc' = OnLoadError
    /\ base_model' = None
    /\ UNCHANGED <<env, model, tokenizer, device, worker, resp>>

\* ------------------------------------------------------------ the endpoints
\* A handler returns or raises: its thread is free again and the client
\* holds the response.
Respond(w, response) ==
    /\ resp' = [resp EXCEPT ![w] = Served(worker[w].op, worker[w].request, response)]
    /\ worker' = [worker EXCEPT ![w] = Idle]

\* POST /predict arrives and a thread enters predict.
AcceptPredict(w) ==
    /\ StartupDone(loadpc)
    /\ worker[w] = Idle
    /\ \E r \in PredictRequests :
        worker' = [worker EXCEPT ![w] = [op |-> "predict", request |-> r, pc |-> "tokenize"]]
    /\ resp' = [resp EXCEPT ![w] = NoResponse]
    /\ UNCHANGED <<env, loadpc, model, tokenizer, device, base_model>>

\* inputs = tokenizer(...).to(device)
PredictTokenize(w) ==
    /\ worker[w].op = "predict"
    /\ worker[w].pc = "tokenize"
    /\ LET r == worker[w].request
           t == TokenizerCall(tokenizer, device, r.premise, r.hypothesis)
       IN  IF t.ok
           THEN /\ worker' = [worker EXCEPT ![w] =
                        [op |-> "predict", request |-> r, pc |-> "forward",
                         inputs |-> t.value]]
                /\ UNCHANGED resp
           ELSE Respond(w, PredictError(t.detail))
    /\ UNCHANGED <<env, loadpc, model, tokenizer, device, base_model>>

\* the forward pass, softmax, argmax and the response
PredictForward(w) ==
    /\ worker[w].op = "predict"
    /\ worker[w].pc = "forward"
    /\ \E mask \in DropoutMasks(model) :
        LET out == ModelCall(model, worker[w].inputs, mask)
        IN  IF out.ok
            THEN LET probs == Softmax(out.value)
                     pred_idx == ArgMax(probs)
                 IN  Respond(w, PredictionResponse(probs, pred_idx))
            ELSE Respond(w, PredictError(out.detail))
    /\ UNCHANGED <<env, loadpc, model, tokenizer, device, base_model>>

\* The tokenizer or the forward pass runs out of a resource and raises.
PredictFault(w) ==
    /\ worker[w].op = "predict"
    /\ Respond(w, PredictError(IF worker[w].pc = "tokenize"
                               THEN EncodeFault ELSE ForwardFault))
    /\ UNCHANGED <<env, loadpc, model, tokenizer, device, base_model>>

\* POST /batch_predict arrives and a thread enters batch_predict: results = []
AcceptBatch(w) ==
    /\ StartupDone(loadpc)
    /\ worker[w] = Idle
    /\ \E r \in BatchRequests :
        worker' = [worker EXCEPT ![w] =
            [op |-> "batch_predict", request |-> r, pc |-> "loop", i |-> 1,
             results |-> << >>]]
    /\ resp' = [resp EXCEPT ![w] = NoResponse]
    /\ UNCHANGED <<env, loadpc, model, tokenizer, device, base_model>>

\* pair[k]: a KeyError when the dict has no such key.
Subscript(pair, k) ==
    IF k \in DOMAIN pair THEN Ok(pair[k]) ELSE Raise(KeyErrorMessage(k))

\* for pair in request.pairs: inputs = tokenizer(pair["premise"],
\* pair["hypothesis"], ...).to(device)
BatchTokenize(w) ==
    /\ worker[w].op = "batch_predict"
    /\ worker[w].pc = "loop"
    /\ worker[w].i <= Len(worker[w].request.pairs)
    /\ LET pair == worker[w].request.pairs[worker[w].i]
           p == Subscript(pair, "premise")
           h == Subscript(pair, "hypothesis")
       IN  IF ~p.ok THEN Respond(w, BatchError(worker[w].results, p.detail))
           ELSE IF ~h.ok THEN Respond(w, BatchError(worker[w].results, h.detail))
           ELSE LET t == TokenizerCall(tokenizer, device, p.value, h.value)
                IN  IF t.ok
                    THEN /\ worker' = [worker EXCEPT ![w] =
                                [op |-> "batch_predict", request |-> worker[w].request,
                                 pc |-> "forward", i |-> worker[w].i,
                                 results |-> worker[w].results, inputs |-> t.value]]
                         /\ UNCHANGED resp
                    ELSE Respond(w, BatchError(worker[w].results, t.detail))
    /\ UNCHANGED <<env, loadpc, model, tokenizer, device, base_model>>

\* the forward pass, softmax, argmax and results.append of one pair
BatchForward(w) ==
    /\ worker[w].op = "batch_predict"
    /\ worker[w].pc = "forward"
    /\ \E mask \in DropoutMasks(model) :
        LET out == ModelCall(model, worker[w].inputs, mask)
            pair == worker[w].request.pairs[worker[w].i]
        IN  IF out.ok
            THEN LET probs == Softmax(out.value)
                     pred_idx == ArgMax(probs)
                 IN  /\ worker' = [worker EXCEPT ![w] =
                            [op |-> "batch_predict", request |-> worker[w].request,
                             pc |-> "loop", i |-> worker[w].i + 1,
                             results |-> AppendResult(worker[w].results,
                                            BatchResult(pair, probs, pred_idx))]]
                     /\ UNCHANGED resp
            ELSE Respond(w, BatchError(worker[w].results, out.detail))
    /\ UNCHANGED <<env, loadpc, model, tokenizer, device, base_model>>

\* the loop is over: return {"results": results}
BatchReturn(w) ==
    /\ worker[w].op = "batch_predict"
    /\ worker[w].pc = "loop"
    /\ worker[w].i > Len(worker[w].request.pairs)
    /\ Respond(w, BatchResponse(worker[w].results))
    /\ UNCHANGED <<env, loadpc, model, tokenizer, device, base_model>>

\* The tokenizer or the forward pass of the current pair runs out of a
\* resource and raises (the tokenizer is called only once both keys of the
\* pair have been read).
BatchFault(w) ==
    /\ worker[w].op = "batch_predict"
    /\ worker[w].i <= Len(worker[w].request.pairs)
    /\ Subscript(worker[w].request.pairs[worker[w].i], "premise").ok
    /\ Subscript(worker[w].request.pairs[worker[w].i], "hypothesis").ok
    /\ Respond(w, BatchError(worker[w].results,
                             IF worker[w].pc = "loop" THEN EncodeFault ELSE ForwardFault))
    /\ UNCHANGED <<env, loadpc, model, tokenizer, device, base_model>>

\* GET /health
HealthCheck(w) ==
    /\ StartupDone(loadpc)
    /\ worker[w] = Idle
    /\ resp' = [resp EXCEPT ![w] = Served("health", None, HealthResponse(model, device))]
    /\ UNCHANGED <<env, loadpc, model, tokenizer, device, base_model, worker>>

\* GET /
Root(w) ==
    /\ StartupDone(loadpc)
    /\ worker[w] = Idle
    /\ resp' = [resp EXCEPT ![w] = Served("root", None, RootResponse)]
    /\ UNCHANGED <<env, loadpc, model, tokenizer, device, base_model, worker>>

Next ==
    \/ LoadDevice
    \/ LoadTokenizer
    \/ LoadBase
    \/ LoadAdapter
    \/ LoadMerge
    \/ LoadPlace
    \/ LoadFail
    \/ \E w \in Workers : AcceptPredict(w)
    \/ \E w \in Workers : PredictTokenize(w)
    \/ \E w \in Workers : PredictForward(w)
    \/ \E w \in Workers : PredictFault(w)
    \/ \E w \in Workers : AcceptBatch(w)
    \/ \E w \in Workers : BatchTokenize(w)
    \/ \E w \in Workers : BatchForward(w)
    \/ \E w \in Workers : BatchReturn(w)
    \/ \E w \in Workers : BatchFault(w)
    \/ \E w \in Workers : HealthCheck(w)
    \/ \E w \in Workers : Root(w)

Spec == Init /\ [][Next]_vars

\* ------------------------------------------------ what the claims speak of
\* The handle load_model builds from the directories when nothing fails.
LoadedTokenizer == TokenizerFromPretrained(env)

LoadedDevice == TorchDevice(env.cuda)

LoadedModel ==
    Eval(To(MergeAndUnload(PeftFromPretrained(ModelFromPretrained(env), env)),
            LoadedDevice))

\* The probabilities, by class index, that a handle gives a pair.
ProbsOf(tok, m, dev, premise, hypothesis) ==
    Softmax(ModelCall(m, TokenizerCall(tok, dev, premise, hypothesis).value, 0).value)

IsPredict(w) == resp[w].op = "predict"

IsBatch(w) == resp[w].op = "batch_predict"

Succeeded(w) == resp[w].response.status = 200 /\ "body" \in DOMAIN resp[w].response

WellFormed(pair) == DOMAIN pair = {"premise", "hypothesis"}

\* The label of the first of the largest entries of a probabilities map,
\* read in the order entailment, neutral, contradiction.
FirstMaxLabel(p) ==
    IF p.entailment >= p.neutral /\ p.entailment >= p.contradiction THEN "Entailment"
    ELSE IF p.neutral >= p.contradiction THEN "Neutral"
    ELSE "Contradiction"

MaxOf(p) == Max(p.entailment, Max(p.neutral, p.contradiction))

TieAtMax(p) ==
    Cardinality({k \in {"entailment", "neutral", "contradiction"} : p[k] = MaxOf(p)}) > 1

\* C1: the label of every result of predict and of every element of a batch
\* response is the class of largest probability, and among classes that share
\* the largest probability the one of lowest index.
C1_ArgmaxFirstMax ==
    \A w \in Workers :
        /\ (IsPredict(w) /\ Succeeded(w)) =>
              resp[w].response.body.prediction
                  = FirstMaxLabel(resp[w].response.body.probabilities)
        /\ (IsBatch(w) /\ Succeeded(w)) =>
              \A i \in DOMAIN resp[w].response.body.results :
                  resp[w].response.body.results[i].prediction
                      = FirstMaxLabel(resp[w].response.body.results[i].probabilities)

\* A predict result and a batch element whose largest probability is shared by
\* two classes, the second of them once not the last class.
C1_Witness ==
    \E w1, w2 \in Workers :
        /\ IsPredict(w1) /\ Succeeded(w1)
        /\ TieAtMax(resp[w1].response.body.probabilities)
        /\ resp[w1].response.body.prediction = "Entailment"
        /\ IsBatch(w2) /\ Succeeded(w2)
        /\ \E i \in DOMAIN resp[w2].response.body.results :
              TieAtMax(resp[w2].response.body.results[i].probabilities)

\* The mapping the model was trained with.
TrainedLabel(c) == IF c = 0 THEN "Entailment" ELSE IF c = 1 THEN "Neutral" ELSE "Contradiction"

MappingKept(item, probs) ==
    /\ item.prediction = TrainedLabel(ArgMax(probs))
    /\ item.probabilities.entailment = probs[0]
    /\ item.probabilities.neutral = probs[1]
    /\ item.probabilities.contradiction = probs[2]

\* C2: in every result, of predict and of batch_predict alike, index 0 is
\* reported as Entailment, 1 as Neutral and 2 as Contradiction, and the
\* probabilities map holds the probability of index 0 under entailment, of
\* index 1 under neutral and of index 2 under contradiction.
C2_LabelMappingFixed ==
    \A w \in Workers :
        /\ (IsPredict(w) /\ Succeeded(w)) =>
              MappingKept(resp[w].response.body,
                          ProbsOf(tokenizer, model, device,
                                  resp[w].request.premise, resp[w].request.hypothesis))
        /\ (IsBatch(w) /\ Succeeded(w)) =>
              \A i \in DOMAIN resp[w].response.body.results :
                  LET item == resp[w].response.body.results[i]
                  IN  MappingKept(item, ProbsOf(tokenizer, model, device,
                                                item.premise, item.hypothesis))

\* Every label has been reported by predict or by batch_predict.
C2_Witness ==
    /\ \E w \in Workers : IsPredict(w) /\ Succeeded(w)
          /\ resp[w].response.body.prediction = "Contradiction"
    /\ \E w \in Workers : IsBatch(w) /\ Succeeded(w)
          /\ \E i \in DOMAIN resp[w].response.body.results :
                resp[w].response.body.results[i].prediction = "Contradiction"

Lowercase(label) ==
    IF label = "Entailment" THEN "entailment"
    ELSE IF label = "Neutral" THEN "neutral" ELSE "contradiction"

\* C3: the confidence of every result is the entry of its probabilities map
\* under the lowercased prediction.
C3_ConfidenceOfPrediction ==
    \A w \in Workers :
        /\ (IsPredict(w) /\ Succeeded(w)) =>
              resp[w].response.body.confidence
                  = resp[w].response.body.probabilities[
                        Lowercase(resp[w].response.body.prediction)]
        /\ (IsBatch(w) /\ Succeeded(w)) =>
              \A i \in DOMAIN resp[w].response.body.results :
                  LET item == resp[w].response.body.results[i]
                  IN  item.confidence = item.probabilities[Lowercase(item.prediction)]

\* Results whose prediction is not the first class and whose confidence
\* differs from the first class's probability.
C3_Witness ==
    \E w1, w2 \in Workers :
        /\ IsPredict(w1) /\ Succeeded(w1)
        /\ resp[w1].response.body.prediction = "Neutral"
        /\ resp[w1].response.body.confidence
              # resp[w1].response.body.probabilities.entailment
        /\ IsBatch(w2) /\ Succeeded(w2)
        /\ \E i \in DOMAIN resp[w2].response.body.results :
              resp[w2].response.body.results[i].prediction # "Entailment"

\* What predict answers for a pair on the current handle.
PredictBodyFor(premise, hypothesis) ==
    LET probs == ProbsOf(tokenizer, model, device, premise, hypothesis)
    IN  PredictionResponse(probs, ArgMax(probs)).body

\* C4: a successful batch response has one result per pair, in the order of
\* the pairs; result i echoes premise and hypothesis of pair i and carries the
\* prediction, confidence and probabilities predict gives that pair; an empty
\* batch gives an empty results sequence.
C4_BatchOrderAndEquivalence ==
    \A w \in Workers :
        (IsBatch(w) /\ Succeeded(w)) =>
            LET pairs == resp[w].request.pairs
                results == resp[w].response.body.results
            IN  /\ Len(results) = Len(pairs)
                /\ \A i \in 1 .. Len(pairs) :
                      /\ WellFormed(pairs[i])
                      /\ results[i].premise = pairs[i]["premise"]
                      /\ results[i].hypothesis = pairs[i]["hypothesis"]
                      /\ LET single == PredictBodyFor(pairs[i]["premise"],
                                                      pairs[i]["hypothesis"])
                         IN  /\ results[i].prediction = single.prediction
                             /\ results[i].confidence = single.confidence
                             /\ results[i].probabilities = single.probabilities

\* A batch of MaxBatch pairs, the first two of them different, has been
\* answered, and its first pair has been answered by predict as well.
C4_Witness ==
    \E w1, w2 \in Workers :
        /\ IsBatch(w1) /\ Succeeded(w1)
        /\ Len(resp[w1].request.pairs) = MaxBatch
        /\ resp[w1].request.pairs[1] # resp[w1].request.pairs[2]
        /\ IsPredict(w2) /\ Succeeded(w2)
        /\ resp[w2].request = resp[w1].request.pairs[1]

\* C5: when a pair of a batch fails, whatever its position, the response is
\* one failure for the whole request and carries no results.
C5_BatchAbortsWhole ==
    \A w \in Workers :
        IsBatch(w) =>
            LET pairs == resp[w].request.pairs
                r == resp[w].response
            IN  /\ (\E i \in 1 .. Len(pairs) : ~WellFormed(pairs[i])) =>
                      r.status = 500
                /\ r.status = 500 => DOMAIN r = {"status", "detail"}
                /\ r.status # 500 => Len(r.body.results) = Len(pairs)

\* A batch of MaxBatch pairs failed by the KeyError of its last pair, after
\* the pairs before it had been processed.
C5_Witness ==
    \E w \in Workers :
        /\ IsBatch(w)
        /\ resp[w].response.status = 500
        /\ Len(resp[w].request.pairs) = MaxBatch
        /\ \A i \in 1 .. (MaxBatch - 1) : WellFormed(resp[w].request.pairs[i])
        /\ resp[w].response.detail \in {KeyErrorMessage("premise"),
                                        KeyErrorMessage("hypothesis")}

ErrorMessages ==
    {EncodeFault, ForwardFault, KeyErrorMessage("premise"), KeyErrorMessage("hypothesis")}

HandleIntact ==
    /\ loadpc = "done"
    /\ model = LoadedModel
    /\ tokenizer = LoadedTokenizer
    /\ device = LoadedDevice

\* C6: a failure inside predict or batch_predict reaches the caller as a 500
\* with a message; the server goes on serving with model, tokenizer and device
\* as load_model left them, and every result of predict is the one the freshly
\* loaded handle gives the pair, whatever failed before.
C6_FailureNotFatal ==
    \A w \in Workers :
        (IsPredict(w) \/ IsBatch(w)) =>
            LET r == resp[w].response
            IN  /\ "body" \notin DOMAIN r =>
                      r.status = 500 /\ r.detail \in ErrorMessages
                /\ HandleIntact
                /\ (IsPredict(w) /\ "body" \in DOMAIN r) =>
                      LET probs == ProbsOf(LoadedTokenizer, LoadedModel, LoadedDevice,
                                           resp[w].request.premise,
                                           resp[w].request.hypothesis)
                      IN  r = PredictionResponse(probs, ArgMax(probs))

\* One thread has answered a failure of predict or of a batch, the other a
\* result of predict.
C6_Witness ==
    \E w1, w2 \in Workers :
        /\ IsPredict(w1) \/ IsBatch(w1)
        /\ resp[w1].response.status = 500
        /\ IsPredict(w2) /\ Succeeded(w2)

Serving(w) == worker[w] # Idle \/ resp[w] # NoResponse

\* C7: an error of load_model stops the startup: no thread runs a handler or
\* has answered a request unless load_model ran to its end and model, tokenizer
\* and device are the fully built handle.
C7_NoServingWithoutHandle ==
    \A w \in Workers : Serving(w) => HandleIntact

\* load_model failed after it had assigned model (the adapter not yet merged).
C7_Witness ==
    /\ loadpc = "failed"
    /\ model.type = "PeftModel"
    /\ \A w \in Workers : ~Serving(w)

\* C8: model, tokenizer and device are written by load_model only, before any
\* request is accepted; no step taken while a request is being served or after
\* startup has ended changes them, load_model does not run again, and a step
\* of one thread's handler leaves the other threads' handlers and responses
\* as they are, however the handlers interleave.
C8_HandleWrittenOnlyAtStartup ==
    [][ /\ (model' # model \/ tokenizer' # tokenizer \/ device' # device) =>
            /\ loadpc \in LoadSteps
            /\ \A w \in Workers : ~Serving(w)
            /\ worker' = worker /\ resp' = resp
        /\ loadpc \notin LoadSteps => loadpc' = loadpc
        /\ \A w1, w2 \in Workers :
              (w1 # w2 /\ (worker'[w1] # worker[w1] \/ resp'[w1] # resp[w1]))
              => (worker'[w2] = worker[w2] /\ resp'[w2] = resp[w2]) ]_vars

\* Two handlers are in progress at once, one in predict and one in the loop of
\* batch_predict, and the handle is the loaded one.
C8_Witness ==
    \E w1, w2 \in Workers :
        /\ worker[w1].op = "predict" /\ worker[w1].pc = "forward"
        /\ worker[w2].op = "batch_predict" /\ worker[w2].pc = "forward"
        /\ worker[w2].i = MaxBatch
        /\ HandleIntact

\* C9: two results of predict for the same pair are the same result.
C9_PredictDeterministic ==
    \A w1, w2 \in Workers :
        (/\ IsPredict(w1) /\ Succeeded(w1)
         /\ IsPredict(w2) /\ Succeeded(w2)
         /\ resp[w1].request = resp[w2].request)
        => resp[w1].response = resp[w2].response

\* Both threads have answered predict for the same pair.
C9_Witness ==
    \E w1, w2 \in Workers :
        /\ w1 # w2
        /\ IsPredict(w1) /\ Succeeded(w1)
        /\ IsPredict(w2) /\ Succeeded(w2)
        /\ resp[w1].request = resp[w2].request

\* C10: the sequence handed to the model is never longer than MaxLength
\* tokens, and predict fails only when the tokenizer or the forward pass
\* itself breaks down, never because of the length of the pair.
C10_LengthNeverRejected ==
    \A w \in Workers :
        /\ (worker[w].op \in {"predict", "batch_predict"} /\ worker[w].pc = "forward") =>
              Len(worker[w].inputs.input_ids) <= MaxLength
        /\ (IsPredict(w) /\ ~Succeeded(w)) =>
              resp[w].response.detail \in {EncodeFault, ForwardFault}

\* The pair of empty strings and a pair of two texts each longer than
\* MaxLength have both got a prediction.
C10_Witness ==
    \E w1, w2 \in Workers :
        /\ IsPredict(w1) /\ Succeeded(w1)
        /\ resp[w1].request = PredictionRequest(Empty, Empty)
        /\ IsPredict(w2) /\ Succeeded(w2)
        /\ resp[w2].request = PredictionRequest(LongText, LongText)
        /\ LongLen > MaxLength

====
